---- MODULE Spec2Model ----
(***************************************************************************)
(* Patron-Maps: one run of a map script.                                   *)
(*                                                                         *)
(*   All_In_One_Map.py                      ("single": dropdown map)       *)
(*   Pct_Active_duel_maps_with_baselayer.py ("dual": two side-by-side maps)*)
(*                                                                         *)
(* A run is: load the script, main(library, tracts[, lat, lon, mapzoom]),  *)
(* runquery (connect, execute, fetchall, close, return a DataFrame),       *)
(* gen_map (two inner merges on geoid, pct_cardholders, build the figure,  *)
(* write the HTML file), then any number of dropdown selections in the     *)
(* written figure.                                                         *)
(*                                                                         *)
(* Text is modelled as a tuple of one-character strings, so that SUBSTRING,*)
(* REGEXP_REPLACE, string concatenation and date formatting are computed.  *)
(***************************************************************************)
EXTENDS Integers, Sequences, FiniteSets, TLC

VARIABLES
    script,     \* which of the two source files is run
    pc,         \* position of the run
    fault,      \* the exception that ended the run, or "none"
    library,    \* main's argument: locality label
    tracts,     \* main's argument: the tract literals of the IN list
    lat, lon, mapzoom,  \* main's arguments of the dual script
    conn,       \* the psycopg2 connection: "none", "open", "closed"
    console,    \* lines printed
    nqueries,   \* statements sent on the connection
    db,         \* the patron database as the statement saw it
    cursor,     \* result set held by the cursor after execute
    rows,       \* rows = cursor.fetchall()
    patron_df,  \* value returned by runquery
    shapes,     \* geometry table read from the shapefile
    pop_df,     \* population table read from the csv
    df,         \* the frame gen_map merges into
    fig,        \* the figure (as written, then as displayed)
    today,      \* date.today() at the write
    files,      \* HTML files written, in order
    batch,      \* the enabled main(...) lines of the script, in file order
    entry       \* which of them is being executed (1-based)

vars == <<script, pc, fault, library, tracts, lat, lon, mapzoom, conn, console,
          nqueries, db, cursor, rows, patron_df, shapes, pop_df, df, fig, today, files,
          batch, entry>>

\* ------------------------------------------------------------------ bounds
\* Number of patron records in the database.
NumPatrons == 3

\* Number of main(...) lines enabled at once in a batch.
MaxBatch == 3

\* ------------------------------------------------------------------ values
None == [kind |-> "None"]
DataFrame(r) == [kind |-> "DataFrame", rows |-> r]

\* SQL NULL (distinct from every text value, '' included).
NULL == <<"NULL">>

Digits == {"0","1","2","3","4","5","6","7","8","9"}

Min(a, b) == IF a < b THEN a ELSE b

\* ------------------------------------------------------------------ the query
\* REGEXP_REPLACE(s, '\|(s|c|t|b)', '', 'g'): every "|" followed by one of
\* s, c, t, b is removed, left to right.
RECURSIVE RegexpReplace(_)
RegexpReplace(s) ==
    IF s = <<>> THEN <<>>
    ELSE IF Len(s) >= 2 /\ s[1] = "|" /\ s[2] \in {"s", "c", "t", "b"}
         THEN RegexpReplace(SubSeq(s, 3, Len(s)))
         ELSE <<s[1]>> \o RegexpReplace(Tail(s))

\* SUBSTRING(s, start, count), 1-based, clipped to the text.
Substring(s, start, count) == SubSeq(s, start, Min(Len(s), start + count - 1))

\* v.field_content ~ '^\|s\d{2}'
MatchesStateCode(s) ==
    /\ Len(s) >= 4
    /\ s[1] = "|" /\ s[2] = "s"
    /\ s[3] \in Digits /\ s[4] \in Digits

NoData == <<"n","o"," ","d","a","t","a">>
Na == <<"n","a">>
UrlPrefix == <<"https://censusreporter.org/profiles/15000US">>

\* Column 1: CASE ... END AS geoid
GeoidCase(fc) ==
    IF fc = NULL THEN NoData
    ELSE IF fc = <<>> THEN fc
    ELSE Substring(RegexpReplace(fc), 1, 12)

\* Column 15: CASE ... END AS census_reporter_url
UrlCase(fc) ==
    IF fc = NULL \/ fc = <<>> THEN Na
    ELSE UrlPrefix \o Substring(RegexpReplace(fc), 1, 12)

\* x IN (list) under SQL's three-valued logic.
SqlIn(x, list) ==
    IF x = NULL THEN "NULL"
    ELSE IF \E i \in 1..Len(list) : list[i] = x THEN "TRUE" ELSE "FALSE"

\* Faulty variant of the WHERE clause: a NULL code passes the filter
\* (as with "OR v.field_content IS NULL").
WherePredicateNullPasses(fc, trs) ==
    IF fc = NULL THEN "TRUE" ELSE SqlIn(Substring(RegexpReplace(fc), 6, 6), trs)

\* WHERE SUBSTRING(REGEXP_REPLACE(v.field_content, ...), 6, 6) IN (tracts)
WherePredicate(fc, trs) ==
    SqlIn(IF fc = NULL THEN NULL ELSE Substring(RegexpReplace(fc), 6, 6), trs)

\* FROM patron_record p ... LEFT JOIN varfield v ON v.record_id = p.id AND
\* v.varfield_type_code = 'k' AND v.field_content ~ '^\|s\d{2}':
\* one row per matching varfield, and a NULL-extended row when none matches.
\* d[p] is the set of 'k' varfield contents of patron p.
JoinedRows(d) ==
    UNION { LET m == {c \in d[p] : MatchesStateCode(c)}
            IN  IF m = {} THEN {[id |-> p, field_content |-> NULL]}
                ELSE {[id |-> p, field_content |-> c] : c \in m}
          : p \in DOMAIN d }

\* WHERE keeps the rows whose predicate is TRUE (not FALSE, not NULL).
FilteredRows(d, trs) ==
    {r \in JoinedRows(d) : WherePredicate(r.field_content, trs) = "TRUE"}

\* GROUP BY 1,15 with COUNT(DISTINCT p.id) AS total_patrons.
GroupedRows(d, trs) ==
    LET f == FilteredRows(d, trs)
        key(r) == <<GeoidCase(r.field_content), UrlCase(r.field_content)>>
    IN  { [geoid |-> k[1],
           total_patrons |-> Cardinality({r.id : r \in {x \in f : key(x) = k}}),
           census_reporter_url |-> k[2]]
        : k \in {key(r) : r \in f} }

\* ORDER BY 2 DESC: every ordering of the grouped rows with total_patrons
\* non-increasing (ties are in whatever order the server produces).
QueryResults(d, trs) ==
    LET g == GroupedRows(d, trs)
        n == Cardinality(g)
    IN  { s \in [1..n -> g] :
            /\ \A i, j \in 1..n : i # j => s[i] # s[j]
            /\ \A i \in 1..n, j \in 1..n :
                 i < j => s[i].total_patrons >= s[j].total_patrons }

\* Faulty variant: a server that accepted an empty IN list.
StatementAlwaysParses(trs) == Len(trs) >= 0

\* The statement with an empty IN list, "... IN ( ) GROUP BY ...", is not
\* SQL: the server rejects it and cursor.execute raises.
StatementParses(trs) == Len(trs) > 0

\* ------------------------------------------------------------------ inputs
Bedford == <<"B","e","d","f","o","r","d">>
Stow == <<"S","t","o","w">>

Tract359100 == <<"3","5","9","1","0","0">>
Tract359300 == <<"3","5","9","3","0","0">>
Tract323100 == <<"3","2","3","1","0","0">>
Tract980000 == <<"9","8","0","0","0","0">>

\* main(library, tracts) calls as the driver lists them (Bedford, Stow),
\* a narrower Bedford call, and a call with an empty tract string.
Entries ==
    { [library |-> Bedford, tracts |-> <<Tract359100, Tract359300>>],
      [library |-> Bedford, tracts |-> <<Tract359100>>],
      [library |-> Bedford, tracts |-> <<>>],
      [library |-> Stow,    tracts |-> <<Tract323100, Tract980000>>] }

\* lat, lon (in 1/10000 degree) and zoom of the dual script's driver lines.
Centers ==
    { [lat |-> 424283, lon |-> -715117, mapzoom |-> 11],
      [lat |-> 423890, lon |-> -714225, mapzoom |-> 11] }

\* 'k' varfield contents: two blocks of block group 250173591001, one block
\* of 250173593002, and a content without a state code.
FcA1 == <<"|","s","2","5","|","c","0","1","7","|","t","3","5","9","1","0","0","|","b","1","0","0","3">>
FcA2 == <<"|","s","2","5","|","c","0","1","7","|","t","3","5","9","1","0","0","|","b","1","0","1","0">>
FcB  == <<"|","s","2","5","|","c","0","1","7","|","t","3","5","9","3","0","0","|","b","2","0","0","1">>
FcBad == <<"|","c","0","1","7">>

GeoidA == <<"2","5","0","1","7","3","5","9","1","0","0","1">>
GeoidB == <<"2","5","0","1","7","3","5","9","3","0","0","2">>
GeoidZ == <<"2","5","0","1","7","3","6","1","1","0","0","1">>

\* What one patron record can carry: no 'k' varfield, or one of the contents.
VarfieldOptions == << {}, {FcBad}, {FcA1}, {FcA2}, {FcB} >>

\* Databases of NumPatrons patrons.  Patron ids are interchangeable in the
\* query (COUNT(DISTINCT p.id)), so one database per multiset of options.
Databases ==
    { [p \in 1..NumPatrons |-> VarfieldOptions[ix[p]]] :
        ix \in { f \in [1..NumPatrons -> 1..Len(VarfieldOptions)] :
                   \A p \in 1..(NumPatrons - 1) : f[p] <= f[p + 1] } }

\* Geometry tables (tl_2019_25_bg.zip after to_crs and lower-cased columns).
ShapeRow(g, poly) == [geoid |-> g, geometry |-> poly]
ShapeTables ==
    { << ShapeRow(GeoidA, "polygonA"), ShapeRow(GeoidB, "polygonB"), ShapeRow(GeoidZ, "polygonZ") >>,
      << ShapeRow(GeoidZ, "polygonZ"), ShapeRow(GeoidB, "polygonB") >>,
      << ShapeRow(GeoidA, "polygonA") >> }

\* Population tables (2019 acs pop estimate bg.csv, geoid read as str);
\* the last one lists a block group twice.
PopValues == {0, 3, 32}
PopRow(g, n) == [geoid |-> g, estimated_population |-> n]
PopTables ==
    { << PopRow(GeoidA, v), PopRow(GeoidZ, 32) >> : v \in PopValues }
    \cup { << PopRow(GeoidB, v), PopRow(GeoidA, 32 - v) >> : v \in PopValues }
    \cup { << PopRow(GeoidB, v) >> : v \in PopValues }
    \cup { << PopRow(GeoidA, 3), PopRow(GeoidB, 32), PopRow(GeoidA, 3) >> }

Dates == { [year |-> 2026, month |-> 11, day |-> 4],
           [year |-> 2027, month |-> 1,  day |-> 15] }

\* ------------------------------------------------------------------ loading
\* Python compiles a file before running any of it.  Line 172 of the dual
\* script is indented by five spaces inside a four-space block: the file
\* is rejected with IndentationError and nothing in it runs.
Compiles(s) == s = "single"

\* Faulty variant: a clear_connection that exists and returns.
ClearConnectionDefined == "returns"

\* clear_connection is defined nowhere in either file: calling it raises
\* NameError inside the except block.
ClearConnection == "NameError"

Abort(exc) ==
    /\ pc' = "aborted"
    /\ fault' = exc

Init ==
    /\ script \in {"single", "dual"}
    /\ \E e \in Entries : library = e.library /\ tracts = e.tracts
    /\ \/ /\ script = "single"
          /\ lat = None /\ lon = None /\ mapzoom = None
       \/ /\ script = "dual"
          /\ \E c \in Centers : lat = c.lat /\ lon = c.lon /\ mapzoom = c.mapzoom
    /\ pc = "load"
    /\ fault = "none"
    /\ conn = "none"
    /\ console = <<>>
    /\ nqueries = 0
    /\ db = <<>>
    /\ cursor = None
    /\ rows = None
    /\ patron_df = None
    /\ shapes = None
    /\ pop_df = None
    /\ df = None
    /\ fig = None
    /\ today = None
    /\ files = <<>>
    /\ batch = << [library |-> library, tracts |-> tracts,
                   lat |-> lat, lon |-> lon, mapzoom |-> mapzoom] >>
    /\ entry = 1

\* python <script>: compile, then run the module body.
Load ==
    /\ pc = "load"
    /\ IF Compiles(script)
       THEN pc' = "main" /\ fault' = fault
       ELSE Abort("IndentationError")
    /\ UNCHANGED <<batch, entry, script, library, tracts, lat, lon, mapzoom, conn, console, nqueries,
                   db, cursor, rows, patron_df, shapes, pop_df, df, fig, today, files>>

\* main: query_results = runquery(tracts)
Main ==
    /\ pc = "main"
    /\ pc' = "connect"
    /\ UNCHANGED <<batch, entry, script, fault, library, tracts, lat, lon, mapzoom, conn, console, nqueries,
                   db, cursor, rows, patron_df, shapes, pop_df, df, fig, today, files>>

\* ------------------------------------------------------------------ runquery
\* try: conn = psycopg2.connect(...)
Connect ==
    /\ pc = "connect"
    /\ conn' = "open"
    /\ pc' = "execute"
    /\ UNCHANGED <<batch, entry, script, fault, library, tracts, lat, lon, mapzoom, console, nqueries,
                   db, cursor, rows, patron_df, shapes, pop_df, df, fig, today, files>>

\* except: print(...); clear_connection(); return
ConnectFail ==
    /\ pc = "connect"
    /\ console' = Append(console, "unable to connect to the database")
    /\ IF ClearConnection = "NameError"
       THEN Abort("NameError")
       ELSE pc' = "merge_geometry" /\ fault' = fault
    /\ UNCHANGED <<batch, entry, script, library, tracts, lat, lon, mapzoom, conn, nqueries,
                   db, cursor, rows, patron_df, shapes, pop_df, df, fig, today, files>>

\* cursor = conn.cursor(); cursor.execute(query)
Execute ==
    /\ pc = "execute"
    /\ nqueries' = nqueries + 1
    /\ IF StatementParses(tracts)
       THEN /\ \E d \in Databases : \E r \in QueryResults(d, tracts) :
                 db' = d /\ cursor' = [kind |-> "ResultSet", rows |-> r]
            /\ pc' = "fetch" /\ fault' = fault
       ELSE /\ Abort("SyntaxError")
            /\ UNCHANGED <<db, cursor>>
    /\ UNCHANGED <<batch, entry, script, library, tracts, lat, lon, mapzoom, conn, console,
                   rows, patron_df, shapes, pop_df, df, fig, today, files>>

\* cursor.execute raises because the server or the network failed.
ExecuteFault ==
    /\ pc = "execute"
    /\ nqueries' = nqueries + 1
    /\ Abort("OperationalError")
    /\ UNCHANGED <<batch, entry, script, library, tracts, lat, lon, mapzoom, conn, console,
                   db, cursor, rows, patron_df, shapes, pop_df, df, fig, today, files>>

\* rows = cursor.fetchall()
Fetch ==
    /\ pc = "fetch"
    /\ rows' = [kind |-> "list", rows |-> cursor.rows]
    /\ pc' = "close"
    /\ UNCHANGED <<batch, entry, script, fault, library, tracts, lat, lon, mapzoom, conn, console, nqueries,
                   db, cursor, patron_df, shapes, pop_df, df, fig, today, files>>

\* cursor.fetchall raises because the server or the network failed.
FetchFault ==
    /\ pc = "fetch"
    /\ Abort("OperationalError")
    /\ UNCHANGED <<batch, entry, script, library, tracts, lat, lon, mapzoom, conn, console, nqueries,
                   db, cursor, rows, patron_df, shapes, pop_df, df, fig, today, files>>

\* conn.close()
Close ==
    /\ pc = "close"
    /\ conn' = "closed"
    /\ pc' = "return"
    /\ UNCHANGED <<batch, entry, script, fault, library, tracts, lat, lon, mapzoom, console, nqueries,
                   db, cursor, rows, patron_df, shapes, pop_df, df, fig, today, files>>

\* df = pd.DataFrame(rows, columns=column_names); return df
\* and main goes on to gen_map(library, query_results).
Return ==
    /\ pc = "return"
    /\ patron_df' = DataFrame(rows.rows)
    /\ pc' = "merge_geometry"
    /\ UNCHANGED <<batch, entry, script, fault, library, tracts, lat, lon, mapzoom, conn, console, nqueries,
                   db, cursor, rows, shapes, pop_df, df, fig, today, files>>

\* ------------------------------------------------------------------ gen_map
\* Faulty variant of the merge: how='left', a left row without a match is
\* kept, with the right columns empty.
RECURSIVE MergeLeft(_, _)
MergeLeft(left, right) ==
    IF left = <<>> THEN <<>>
    ELSE LET l == Head(left)
             m == SelectSeq(right, LAMBDA r : r.geoid = l.geoid)
         IN  (IF m = <<>>
              THEN << l @@ [total_patrons |-> 0, census_reporter_url |-> Na,
                            estimated_population |-> 0] >>
              ELSE [i \in 1..Len(m) |-> l @@ m[i]])
             \o MergeLeft(Tail(left), right)

\* Faulty variant of the merge: no key is compared, every left row is
\* paired with every right row.
RECURSIVE MergeCross(_, _)
MergeCross(left, right) ==
    IF left = <<>> THEN <<>>
    ELSE [i \in 1..Len(right) |-> Head(left) @@ right[i]] \o MergeCross(Tail(left), right)

\* left.merge(right, on='geoid', how='inner'): for each left row in order,
\* one output row per right row with the same geoid, in right order,
\* carrying the columns of both.
RECURSIVE MergeInner(_, _)
MergeInner(left, right) ==
    IF left = <<>> THEN <<>>
    ELSE LET l == Head(left)
             m == SelectSeq(right, LAMBDA r : r.geoid = l.geoid)
         IN  [i \in 1..Len(m) |-> l @@ m[i]] \o MergeInner(Tail(left), right)

\* Faulty variant of the rounding: truncation.
RoundDown(num, den) == num \div den

\* numpy rint of num/den: to nearest, ties to even.
RoundHalfEven(num, den) ==
    LET q == num \div den
        r == num % den
    IN  IF 2 * r < den THEN q
        ELSE IF 2 * r > den THEN q + 1
        ELSE IF q % 2 = 0 THEN q ELSE q + 1

\* (total_patrons / estimated_population * 100.00).round(decimals=2), as a
\* count of hundredths; pandas division by zero gives inf, not an exception
\* (total_patrons of a group is at least 1).
PctCardholders(total_patrons, estimated_population) ==
    IF estimated_population = 0
    THEN [kind |-> "inf"]
    ELSE [kind |-> "float",
          hundredths |-> RoundHalfEven(total_patrons * 100 * 100, estimated_population)]

\* df['pct_cardholders'] = ... on every row of the frame
WithPctCardholders(r) ==
    [i \in 1..Len(r) |->
        r[i] @@ [pct_cardholders |->
                   PctCardholders(r[i].total_patrons, r[i].estimated_population)]]

\* df = gpd.read_file(zipfile).to_crs(...); df = df.merge(patron_df, ...)
\* (merge raises TypeError when patron_df is None)
MergeGeometry ==
    /\ pc = "merge_geometry"
    /\ \E g \in ShapeTables :
         /\ shapes' = DataFrame(g)
         /\ IF patron_df = None
            THEN Abort("TypeError") /\ df' = DataFrame(g)
            ELSE /\ df' = DataFrame(MergeInner(g, patron_df.rows))
                 /\ pc' = "merge_population" /\ fault' = fault
    /\ UNCHANGED <<batch, entry, script, library, tracts, lat, lon, mapzoom, conn, console, nqueries,
                   db, cursor, rows, patron_df, pop_df, fig, today, files>>

\* pop_df = pd.read_csv(...); df = df.merge(pop_df, on='geoid', how='inner')
MergePopulation ==
    /\ pc = "merge_population"
    /\ \E p \in PopTables :
         /\ pop_df' = DataFrame(p)
         /\ df' = DataFrame(MergeInner(df.rows, p))
    /\ pc' = "pct"
    /\ UNCHANGED <<batch, entry, script, fault, library, tracts, lat, lon, mapzoom, conn, console, nqueries,
                   db, cursor, rows, patron_df, shapes, fig, today, files>>

\* df['pct_cardholders'] = df.total_patrons / df.estimated_population * 100.00
\* df['pct_cardholders'] = df['pct_cardholders'].round(decimals=2)
ComputePct ==
    /\ pc = "pct"
    /\ df' = DataFrame(WithPctCardholders(df.rows))
    /\ pc' = "figure"
    /\ UNCHANGED <<batch, entry, script, fault, library, tracts, lat, lon, mapzoom, conn, console, nqueries,
                   db, cursor, rows, patron_df, shapes, pop_df, fig, today, files>>

\* ------------------------------------------------------------------ figure
\* Faulty variant of the field list: the last field is left out.
cols_dd_short == << "total_patrons", "estimated_population", "pct_cardholders",
                    "total_checkouts", "checkouts_per_patron", "total_new_patrons",
                    "total_active_patrons", "pct_active", "total_blocked_patrons" >>

\* cols_dd, the fields selectable in the drop down menu
cols_dd == << "total_patrons", "estimated_population", "pct_cardholders",
              "total_checkouts", "checkouts_per_patron", "total_new_patrons",
              "total_active_patrons", "pct_active", "total_blocked_patrons",
              "pct_blocked" >>

\* f'<b>{value}</b>'
Bold(value) == << "<b>", value, "</b>" >>

\* Faulty variant of the trace: no trace is hidden.
ChoroplethShown(value, frame) ==
    [z |-> value,
     locations |-> [i \in 1..Len(frame) |-> i - 1],
     visible |-> TRUE]

\* go.Choropleth(locations=df.index, geojson=zipjson, z=df[value],
\*               colorbar_title=value, ..., visible = value == cols_dd[0])
Choropleth(value, frame) ==
    [z |-> value,
     locations |-> [i \in 1..Len(frame) |-> i - 1],
     visible |-> (value = cols_dd[1])]

\* Faulty variant of the button: the title argument is not the button's field.
ButtonFirstTitle(value) ==
    [label |-> value,
     method |-> "update",
     visible |-> [i \in 1..Len(cols_dd) |-> cols_dd[i] = value],
     title |-> Bold(cols_dd[1])]

\* dict(label=value, method='update',
\*      args=[{'visible': list(visible == value)}, {'title': f'<b>{value}</b>'}])
Button(value) ==
    [label |-> value,
     method |-> "update",
     visible |-> [i \in 1..Len(cols_dd) |-> cols_dd[i] = value],
     title |-> Bold(value)]

\* updatemenus = [{'active': 0, 'buttons': buttons}] (the index is 0-based)
InitialActive == 0

\* first_title = cols_dd[0]
FirstTitle == cols_dd[1]

\* json.loads(df.to_json()): one feature per row of the frame, identified by
\* the row's index, with the row's geoid among its properties.
ZipJson(frame) == [i \in 1..Len(frame) |-> [id |-> i - 1, geoid |-> frame[i].geoid]]

\* The single script's figure.
SingleFigure(frame) ==
    [geojson |-> ZipJson(frame),
     traces |-> [i \in 1..Len(cols_dd) |-> Choropleth(cols_dd[i], frame)],
     buttons |-> [i \in 1..Len(cols_dd) |-> Button(cols_dd[i])],
     active |-> InitialActive,
     title |-> Bold(FirstTitle)]

\* go.Choroplethmapbox(geojson=zipjson, locations=df.geoid,
\*                     featureidkey="properties.geoid", z=df.<field>, ...);
\* visible is left at its default, shown.
Choroplethmapbox(value, frame) ==
    [z |-> value,
     locations |-> [i \in 1..Len(frame) |-> frame[i].geoid],
     visible |-> TRUE]

\* mapbox_style=..., mapbox_zoom=mapzoom, mapbox_center={"lat": lat, "lon": lon}
Mapbox(la, lo, zoom) ==
    [style |-> "open-street-map", zoom |-> zoom, center |-> [lat |-> la, lon |-> lo]]

\* The dual script's figure: make_subplots(rows=1, cols=2, ...), the two
\* traces added at (1,1) and (1,2), update_layout for mapbox and mapbox2.
DualFigure(frame, la, lo, zoom) ==
    [geojson |-> ZipJson(frame),
     traces |-> << Choroplethmapbox("pct_cardholders", frame),
                   Choroplethmapbox("pct_active", frame) >>,
     buttons |-> <<>>,
     subplot_titles |-> << "Cardholder Percentage", "Active Percentage" >>,
     mapbox |-> Mapbox(la, lo, zoom),
     mapbox2 |-> Mapbox(la, lo, zoom)]

\* gen_map from zipjson to fig.update_geos / fig.update_layout
BuildFigure ==
    /\ pc = "figure"
    /\ fig' = IF script = "single"
              THEN SingleFigure(df.rows)
              ELSE DualFigure(df.rows, lat, lon, mapzoom)
    /\ pc' = "write"
    /\ UNCHANGED <<batch, entry, script, fault, library, tracts, lat, lon, mapzoom, conn, console, nqueries,
                   db, cursor, rows, patron_df, shapes, pop_df, df, today, files>>

\* ------------------------------------------------------------------ output
DigitChar(n) ==
    CASE n = 0 -> "0" [] n = 1 -> "1" [] n = 2 -> "2" [] n = 3 -> "3" [] n = 4 -> "4"
      [] n = 5 -> "5" [] n = 6 -> "6" [] n = 7 -> "7" [] n = 8 -> "8" [] n = 9 -> "9"

\* n in decimal, zero-padded to width w
RECURSIVE ZeroPad(_, _)
ZeroPad(n, w) ==
    IF w = 0 THEN <<>> ELSE ZeroPad(n \div 10, w - 1) \o << DigitChar(n % 10) >>

\* Faulty variant of the date text: month and day without zero padding.
IsoFormatUnpadded(d) ==
    ZeroPad(d.year, 4) \o <<"-">>
       \o ZeroPad(d.month, IF d.month < 10 THEN 1 ELSE 2) \o <<"-">>
       \o ZeroPad(d.day, IF d.day < 10 THEN 1 ELSE 2)

\* str(date): YYYY-MM-DD
IsoFormat(d) ==
    ZeroPad(d.year, 4) \o <<"-">> \o ZeroPad(d.month, 2) \o <<"-">> \o ZeroPad(d.day, 2)

\* 'AllInOneMap{}.html' / 'ActivePatrons{}.html' up to the placeholder
KindTag(s) ==
    IF s = "single"
    THEN <<"A","l","l","I","n","O","n","e","M","a","p">>
    ELSE <<"A","c","t","i","v","e","P","a","t","r","o","n","s">>

DotHtml == <<".","h","t","m","l">>

\* library + '<Kind>{}.html'.format(date.today())
FileName(lib, s, d) == lib \o KindTag(s) \o IsoFormat(d) \o DotHtml

\* The clock does not run backwards: date b is not earlier than date a.
NotEarlier(a, b) ==
    \/ a.year < b.year
    \/ a.year = b.year /\ a.month < b.month
    \/ a.year = b.year /\ a.month = b.month /\ a.day <= b.day

\* pio.write_html(fig, file=..., auto_open=False); gen_map and main return.
\* today holds the last reading of the clock.
WriteHtml ==
    /\ pc = "write"
    /\ \E d \in Dates :
         /\ IF today = None THEN TRUE ELSE NotEarlier(today, d)
         /\ today' = d
         /\ files' = Append(files, FileName(library, script, d))
    /\ pc' = "done"
    /\ UNCHANGED <<batch, entry, script, fault, library, tracts, lat, lon, mapzoom, conn, console, nqueries,
                   db, cursor, rows, patron_df, shapes, pop_df, df, fig>>

\* The viewer picks entry k of the drop down: method 'update' applies the
\* button's visible list to the traces and its title to the layout, and
\* the menu's active index becomes k.
SelectButton(f, k) ==
    [f EXCEPT !.traces = [i \in 1..Len(f.traces) |->
                            [f.traces[i] EXCEPT !.visible = f.buttons[k + 1].visible[i]]],
              !.title = f.buttons[k + 1].title,
              !.active = k]

Select ==
    /\ pc = "done"
    /\ \E k \in 0..(Len(fig.buttons) - 1) : fig' = SelectButton(fig, k)
    /\ UNCHANGED <<batch, entry, script, pc, fault, library, tracts, lat, lon, mapzoom, conn, console,
                   nqueries, db, cursor, rows, patron_df, shapes, pop_df, df, today, files>>

Next ==
    \/ Load
    \/ Main
    \/ Connect
    \/ ConnectFail
    \/ Execute
    \/ ExecuteFault
    \/ Fetch
    \/ FetchFault
    \/ Close
    \/ Return
    \/ MergeGeometry
    \/ MergePopulation
    \/ ComputePct
    \/ BuildFigure
    \/ WriteHtml
    \/ Select

Spec == Init /\ [][Next]_vars

\* ------------------------------------------------------------------ batch
Dover == <<"D","o","v","e","r">>
Millis == <<"M","i","l","l","i","s">>
Sherborn == <<"S","h","e","r","b","o","r","n">>
Sudbury == <<"S","u","d","b","u","r","y">>

\* The main(...) lines at the bottom of a script, in file order (four of
\* the single script's, the first two of the dual script's that give a
\* centre and a zoom).
DriverLines(s) ==
    IF s = "single"
    THEN << [library |-> Bedford, tracts |-> <<Tract359100, Tract359300>>,
             lat |-> None, lon |-> None, mapzoom |-> None],
            [library |-> Dover, tracts |-> << <<"4","0","5","1","0","0">> >>,
             lat |-> None, lon |-> None, mapzoom |-> None],
            [library |-> Millis, tracts |-> << <<"4","0","7","1","0","0">> >>,
             lat |-> None, lon |-> None, mapzoom |-> None],
            [library |-> Sherborn, tracts |-> << <<"3","8","6","1","0","0">> >>,
             lat |-> None, lon |-> None, mapzoom |-> None] >>
    ELSE << [library |-> Stow, tracts |-> <<Tract323100, Tract980000>>,
             lat |-> 424283, lon |-> -715117, mapzoom |-> 11],
            [library |-> Sudbury,
             tracts |-> << <<"3","6","5","1","0","0">>, <<"3","6","5","2","0","1">>,
                           <<"3","6","5","2","0","2">> >>,
             lat |-> 423890, lon |-> -714225, mapzoom |-> 11] >>

\* The lines of `lines` at the positions in I, in file order.
Enabled(lines, I) ==
    [k \in 1..Cardinality(I) |->
        lines[CHOOSE i \in I : Cardinality({j \in I : j < i}) = k - 1]]

\* The batches: the lines left uncommented, at least one and at most MaxBatch.
Batches(s) ==
    { Enabled(DriverLines(s), I) :
        I \in { J \in SUBSET (1..Len(DriverLines(s))) :
                  J # {} /\ Cardinality(J) <= MaxBatch } }

InitBatch ==
    /\ script \in {"single", "dual"}
    /\ batch \in Batches(script)
    /\ entry = 1
    /\ library = batch[1].library /\ tracts = batch[1].tracts
    /\ lat = batch[1].lat /\ lon = batch[1].lon /\ mapzoom = batch[1].mapzoom
    /\ pc = "load"
    /\ fault = "none"
    /\ conn = "none"
    /\ console = <<>>
    /\ nqueries = 0
    /\ db = <<>>
    /\ cursor = None
    /\ rows = None
    /\ patron_df = None
    /\ shapes = None
    /\ pop_df = None
    /\ df = None
    /\ fig = None
    /\ today = None
    /\ files = <<>>

\* Faulty variant of the driver: it goes on to the next line after a call
\* that ended by an exception (continue-on-error).
NextEntryAfterFault ==
    /\ pc \in {"done", "aborted"}
    /\ entry < Len(batch)
    /\ entry' = entry + 1
    /\ library' = batch[entry + 1].library /\ tracts' = batch[entry + 1].tracts
    /\ lat' = batch[entry + 1].lat /\ lon' = batch[entry + 1].lon
    /\ mapzoom' = batch[entry + 1].mapzoom
    /\ pc' = "main"
    /\ conn' = "none"
    /\ nqueries' = 0
    /\ db' = <<>>
    /\ cursor' = None /\ rows' = None /\ patron_df' = None
    /\ shapes' = None /\ pop_df' = None /\ df' = None /\ fig' = None
    /\ fault' = "none"
    /\ UNCHANGED <<script, batch, console, files, today>>

\* main has returned and the module body goes on to the next enabled
\* main(...) line; the locals of the finished call are gone.
NextEntry ==
    /\ pc = "done"
    /\ entry < Len(batch)
    /\ entry' = entry + 1
    /\ library' = batch[entry + 1].library /\ tracts' = batch[entry + 1].tracts
    /\ lat' = batch[entry + 1].lat /\ lon' = batch[entry + 1].lon
    /\ mapzoom' = batch[entry + 1].mapzoom
    /\ pc' = "main"
    /\ conn' = "none"
    /\ nqueries' = 0
    /\ db' = <<>>
    /\ cursor' = None /\ rows' = None /\ patron_df' = None
    /\ shapes' = None /\ pop_df' = None /\ df' = None /\ fig' = None
    /\ UNCHANGED <<script, batch, fault, console, files, today>>

\* The process running a batch (the viewer's selections are no part of it).
NextBatch ==
    \/ Load
    \/ Main
    \/ Connect
    \/ ConnectFail
    \/ Execute
    \/ ExecuteFault
    \/ Fetch
    \/ FetchFault
    \/ Close
    \/ Return
    \/ MergeGeometry
    \/ MergePopulation
    \/ ComputePct
    \/ BuildFigure
    \/ WriteHtml
    \/ NextEntry

BatchSpec == InitBatch /\ [][NextBatch]_vars

\* ------------------------------------------------------------------ properties
GeoidsOf(frame) == {frame[i].geoid : i \in 1..Len(frame)}

\* The geoids a trace draws: the single script's locations are row indexes
\* into the geojson features, the dual script's are geoids.
LayerGeoids(t) ==
    IF script = "single"
    THEN {fig.geojson[t.locations[i] + 1].geoid : i \in 1..Len(t.locations)}
    ELSE {t.locations[i] : i \in 1..Len(t.locations)}

Merged == pc \in {"pct", "figure", "write", "done"}

\* C1: after the two merges every geoid of the merged table is a geoid of
\* the aggregate rows, of the geometry rows and of the population rows, and
\* every geoid drawn by a layer of the figure is one of these.
C1_MergedGeoidsInAllInputs ==
    /\ Merged =>
         GeoidsOf(df.rows) \subseteq
            (GeoidsOf(patron_df.rows) \cap GeoidsOf(shapes.rows) \cap GeoidsOf(pop_df.rows))
    /\ fig # None =>
         \A i \in 1..Len(fig.traces) :
            LayerGeoids(fig.traces[i]) \subseteq
               (GeoidsOf(patron_df.rows) \cap GeoidsOf(shapes.rows) \cap GeoidsOf(pop_df.rows))

\* C1 witness: a written map whose layers draw something, while a geoid of
\* the aggregate that the geometry has is missing from the population file.
C1_Witness ==
    /\ pc = "done"
    /\ Len(df.rows) > 0
    /\ \E g \in GeoidsOf(patron_df.rows) \cap GeoidsOf(shapes.rows) :
         g \notin GeoidsOf(pop_df.rows)

VisibleTraces(f) == {i \in 1..Len(f.traces) : f.traces[i].visible}

\* C2: in the single script's figure, as built and after any selections,
\* exactly one trace is visible and it is the trace at the position of the
\* active menu entry, drawing that entry's field.
C2_ExactlyOneVisible ==
    (script = "single" /\ fig # None) =>
        /\ VisibleTraces(fig) = {fig.active + 1}
        /\ fig.traces[fig.active + 1].z = fig.buttons[fig.active + 1].label

\* C2 witness: a selection of a later entry has been made.
C2_Witness ==
    /\ script = "single" /\ pc = "done"
    /\ fig.active = 7
    /\ fig.traces[8].visible

\* C3: the title of the single script's figure is the bold label of the
\* active entry, which is field number active of cols_dd, and every
\* visible trace draws that field.
C3_TitleNamesActiveField ==
    (script = "single" /\ fig # None) =>
        /\ fig.active \in 0..(Len(cols_dd) - 1)
        /\ fig.buttons[fig.active + 1].label = cols_dd[fig.active + 1]
        /\ fig.title = << "<b>", cols_dd[fig.active + 1], "</b>" >>
        /\ \A i \in VisibleTraces(fig) : fig.traces[i].z = cols_dd[fig.active + 1]

\* C3 witness: pct_blocked, the last entry, has been selected.
C3_Witness ==
    /\ script = "single" /\ pc = "done"
    /\ fig.active = 9
    /\ fig.title = << "<b>", "pct_blocked", "</b>" >>

RowOf(frame, g) == CHOOSE r \in {frame[i] : i \in 1..Len(frame)} : r.geoid = g

\* h hundredths is total/pop*100 rounded to two decimals, ties to even.
IsRounded(h, total, pop) ==
    /\ 2 * (h * pop - total * 10000) <= pop
    /\ 2 * (total * 10000 - h * pop) <= pop
    /\ 2 * (total * 10000 - h * pop) \in {pop, 0 - pop} => h % 2 = 0

\* C4: once pct_cardholders is computed, every merged row carries the
\* total_patrons of the aggregate row and the estimated_population of the
\* population row of its geoid, and its pct_cardholders is their ratio
\* times 100 rounded to two decimals (inf when the population is 0).
C4_PctCardholders ==
    pc \in {"figure", "write", "done"} =>
        \A i \in 1..Len(df.rows) :
            LET r == df.rows[i] IN
            /\ r.total_patrons = RowOf(patron_df.rows, r.geoid).total_patrons
            /\ r.estimated_population = RowOf(pop_df.rows, r.geoid).estimated_population
            /\ IF r.estimated_population = 0
               THEN r.pct_cardholders.kind = "inf"
               ELSE /\ r.pct_cardholders.kind = "float"
                    /\ IsRounded(r.pct_cardholders.hundredths,
                                 r.total_patrons, r.estimated_population)

\* C4 witness: a row with 3 patrons in a population of 32: 9.375 is a tie,
\* rounded to 9.38.
C4_Witness ==
    /\ pc = "done"
    /\ \E i \in 1..Len(df.rows) :
         /\ df.rows[i].total_patrons = 3
         /\ df.rows[i].estimated_population = 32
         /\ df.rows[i].pct_cardholders = [kind |-> "float", hundredths |-> 938]

RunqueryEnded ==
    pc \in {"aborted", "merge_geometry", "merge_population", "pct", "figure", "write", "done"}

\* C5: whenever runquery has ended, by return or by an exception, a
\* connection it opened has been closed.
C5_ConnectionClosedOnEveryExit ==
    RunqueryEnded => conn # "open"

\* The connection attempt of runquery has been made and has failed.
ConnectFailed ==
    /\ pc \notin {"load", "main", "connect"}
    /\ fault # "IndentationError"
    /\ conn = "none"

\* C6: when the connection cannot be established the message is printed,
\* the run is aborted, no statement was sent, gen_map was never entered
\* (no table read, no frame, no figure) and no file is written.
C6_ConnectFailureIsTerminal ==
    ConnectFailed =>
        /\ console = << "unable to connect to the database" >>
        /\ pc = "aborted"
        /\ nqueries = 0
        /\ cursor = None /\ patron_df = None
        /\ shapes = None /\ pop_df = None /\ df = None /\ fig = None
        /\ files = <<>>

\* C6 witness: the single script's run after a failed connection attempt.
C6_Witness ==
    /\ script = "single"
    /\ ConnectFailed
    /\ Len(console) = 1
    /\ fault = "NameError"

\* Exceptions raised inside runquery.
RunqueryFaults == {"NameError", "SyntaxError", "OperationalError"}

\* C7: a run of the dual script ends only by a failure of runquery or by a
\* written map, and the figure of that map has exactly two traces, drawing
\* pct_cardholders and pct_active, both visible, on two mapboxes with the
\* caller's centre and zoom.
C7_DualRendersTwoLayers ==
    script = "dual" =>
        /\ pc = "aborted" => fault \in RunqueryFaults
        /\ pc \in {"write", "done"} =>
             /\ Len(fig.traces) = 2
             /\ fig.traces[1].z = "pct_cardholders" /\ fig.traces[2].z = "pct_active"
             /\ fig.traces[1].visible /\ fig.traces[2].visible
             /\ fig.mapbox = fig.mapbox2
             /\ fig.mapbox.zoom = mapzoom
             /\ fig.mapbox.center = [lat |-> lat, lon |-> lon]

DigitValue(c) ==
    CASE c = "0" -> 0 [] c = "1" -> 1 [] c = "2" -> 2 [] c = "3" -> 3 [] c = "4" -> 4
      [] c = "5" -> 5 [] c = "6" -> 6 [] c = "7" -> 7 [] c = "8" -> 8 [] c = "9" -> 9

\* The number a text of decimal digits denotes.
RECURSIVE ParseDecimal(_)
ParseDecimal(s) ==
    IF s = <<>> THEN 0
    ELSE 10 * ParseDecimal(SubSeq(s, 1, Len(s) - 1)) + DigitValue(s[Len(s)])

AllDigits(s) == \A i \in 1..Len(s) : s[i] \in Digits

\* name is <lib><tag><YYYY-MM-DD of d>.html
IsMapFileName(name, lib, tag, d) ==
    LET a == Len(lib)
        b == a + Len(tag)
    IN  /\ Len(name) = b + 10 + 5
        /\ SubSeq(name, 1, a) = lib
        /\ SubSeq(name, a + 1, b) = tag
        /\ AllDigits(SubSeq(name, b + 1, b + 4))
        /\ ParseDecimal(SubSeq(name, b + 1, b + 4)) = d.year
        /\ name[b + 5] = "-"
        /\ AllDigits(SubSeq(name, b + 6, b + 7))
        /\ ParseDecimal(SubSeq(name, b + 6, b + 7)) = d.month
        /\ name[b + 8] = "-"
        /\ AllDigits(SubSeq(name, b + 9, b + 10))
        /\ ParseDecimal(SubSeq(name, b + 9, b + 10)) = d.day
        /\ SubSeq(name, b + 11, b + 15) = <<".","h","t","m","l">>

\* C8: a run writes nothing until it completes and then has written exactly
\* one file, whose name is the locality label, the kind tag of the script,
\* the date of the write as YYYY-MM-DD and ".html".
C8_FileName ==
    /\ pc # "done" => files = <<>>
    /\ pc = "done" =>
         /\ Len(files) = 1
         /\ IsMapFileName(files[1], library,
                IF script = "single"
                THEN <<"A","l","l","I","n","O","n","e","M","a","p">>
                ELSE <<"A","c","t","i","v","e","P","a","t","r","o","n","s">>,
                today)

\* C8 witness: a map written on a day with a one-digit month.
C8_Witness ==
    /\ pc = "done"
    /\ today.month = 1
    /\ Len(files) = 1

\* Patron p has no 'k' varfield with a state code: the LEFT JOIN gives it a
\* NULL field_content.
Uncoded(p) == \A c \in db[p] : ~MatchesStateCode(c)

OneRowPerGeoid(r) == \A i, j \in 1..Len(r) : r[i].geoid = r[j].geoid => i = j

\* C9 as claimed: one row per geographic code, and the patrons without a
\* code are kept in the output under the geoid 'no data'.
C9_NullCodesCoalesced ==
    cursor # None =>
        /\ OneRowPerGeoid(cursor.rows)
        /\ (\E p \in DOMAIN db : Uncoded(p)) => NoData \in GeoidsOf(cursor.rows)

\* The patrons of the database whose code names block group g of a tract
\* of the list.
PatronsOf(g) ==
    {p \in DOMAIN db : \E c \in db[p] :
        /\ MatchesStateCode(c)
        /\ SubSeq(RegexpReplace(c), 1, 12) = g
        /\ \E i \in 1..Len(tracts) : tracts[i] = SubSeq(RegexpReplace(c), 6, 11)}

\* C9 amended: the output has one row per geographic code of the patrons
\* whose tract is in the list, counting those patrons; patrons without a
\* code are in no row, and no row has the geoid 'no data'.
C9_RowsPerRequestedCode ==
    cursor # None =>
        /\ OneRowPerGeoid(cursor.rows)
        /\ NoData \notin GeoidsOf(cursor.rows)
        /\ \A i \in 1..Len(cursor.rows) :
             /\ cursor.rows[i].total_patrons = Cardinality(PatronsOf(cursor.rows[i].geoid))
             /\ cursor.rows[i].total_patrons > 0
             /\ \A p \in PatronsOf(cursor.rows[i].geoid) : ~Uncoded(p)
        /\ \A p \in DOMAIN db : \A c \in db[p] : \A i \in 1..Len(tracts) :
             (MatchesStateCode(c) /\ tracts[i] = SubSeq(RegexpReplace(c), 6, 11))
                => SubSeq(RegexpReplace(c), 1, 12) \in GeoidsOf(cursor.rows)

\* C9 witness: a result with a row counting two patrons while another
\* patron of the database has no code.
C9_Witness ==
    /\ cursor # None
    /\ \E p \in DOMAIN db : Uncoded(p)
    /\ \E i \in 1..Len(cursor.rows) : cursor.rows[i].total_patrons = 2

\* C10 as claimed: with an empty tract list the statement is not
\* rejected, its result has no rows, and the merged table is empty.
C10_EmptyTractsReachRender ==
    (script = "single" /\ tracts = <<>>) =>
        /\ fault # "SyntaxError"
        /\ cursor # None => cursor.rows = <<>>
        /\ Merged => df.rows = <<>>

\* C10 amended: with an empty tract list the run never gets past
\* cursor.execute: once the statement is sent the run is aborted by the
\* exception, there is no result, no merge, no figure and no file.
C10_EmptyTractsFault ==
    tracts = <<>> =>
        /\ pc \in {"load", "main", "connect", "execute", "aborted"}
        /\ nqueries > 0 => (pc = "aborted" /\ fault \in {"SyntaxError", "OperationalError"})
        /\ cursor = None /\ rows = None /\ patron_df = None
        /\ shapes = None /\ df = None /\ fig = None
        /\ files = <<>>

\* C10 witness: the statement with the empty IN list was sent and rejected.
C10_Witness ==
    /\ script = "single"
    /\ tracts = <<>>
    /\ nqueries = 1
    /\ fault = "SyntaxError"

\* The fixed field list, in order.
FixedFields ==
    << "total_patrons", "estimated_population", "pct_cardholders", "total_checkouts",
       "checkouts_per_patron", "total_new_patrons", "total_active_patrons",
       "pct_active", "total_blocked_patrons", "pct_blocked" >>

\* C12: the single script's figure has exactly 10 traces and exactly 10
\* menu entries; trace i draws field i of the fixed list, entry i is
\* labelled with field i, and entry i's visible list has 10 elements, true
\* at position i and nowhere else.
C12_TenLayersTenEntries ==
    (script = "single" /\ fig # None) =>
        /\ Len(fig.traces) = 10
        /\ Len(fig.buttons) = 10
        /\ \A i \in 1..10 :
             /\ fig.traces[i].z = FixedFields[i]
             /\ fig.buttons[i].label = FixedFields[i]
             /\ Len(fig.buttons[i].visible) = 10
             /\ \A j \in 1..10 : fig.buttons[i].visible[j] <=> (j = i)

\* C12 witness: the figure of a written map that draws two block groups.
C12_Witness ==
    /\ script = "single"
    /\ pc = "done"
    /\ Len(fig.geojson) = 2
    /\ Len(fig.buttons) = 10

\* The three inputs of gen_map each list a geoid at most once.
UniqueKeys ==
    /\ OneRowPerGeoid(patron_df.rows)
    /\ OneRowPerGeoid(shapes.rows)
    /\ OneRowPerGeoid(pop_df.rows)

\* The columns the merges produce (pct_cardholders is added afterwards).
MergedColumns(r) ==
    [geoid |-> r.geoid, geometry |-> r.geometry, total_patrons |-> r.total_patrons,
     census_reporter_url |-> r.census_reporter_url,
     estimated_population |-> r.estimated_population]

RowSet(frame) == {MergedColumns(frame[i]) : i \in 1..Len(frame)}

\* C13: when no input lists a geoid twice, the merged table has exactly one
\* row for each geoid common to the three inputs and no other row, and it
\* has the rows that joining the population first and the aggregate second,
\* or joining aggregate and population first and the geometry last, gives.
C13_MergedIsIntersection ==
    (Merged /\ UniqueKeys) =>
        /\ OneRowPerGeoid(df.rows)
        /\ GeoidsOf(df.rows) =
             GeoidsOf(patron_df.rows) \cap GeoidsOf(shapes.rows) \cap GeoidsOf(pop_df.rows)
        /\ RowSet(df.rows) =
             RowSet(MergeInner(MergeInner(shapes.rows, pop_df.rows), patron_df.rows))
        /\ RowSet(df.rows) =
             RowSet(MergeInner(MergeInner(patron_df.rows, pop_df.rows), shapes.rows))
        /\ Len(df.rows) =
             Len(MergeInner(MergeInner(shapes.rows, pop_df.rows), patron_df.rows))

\* C13 witness: two block groups common to the three inputs, a third one
\* in the geometry only, and no input with a repeated geoid.
C13_Witness ==
    /\ pc = "done"
    /\ UniqueKeys
    /\ Len(df.rows) = 2
    /\ Len(shapes.rows) = 3

\* With a repeated geoid in the population file the merged table repeats it.
C13_RepeatedKeyWitness ==
    /\ Merged
    /\ ~UniqueKeys
    /\ ~OneRowPerGeoid(df.rows)

\* The stages of one main(...) call: inside runquery, and inside gen_map.
QueryStages == {"connect", "execute", "fetch", "close", "return"}
RenderStages == {"merge_geometry", "merge_population", "pct", "figure", "write"}

\* The library each written file was written for: file i begins with the
\* library of batch line i and ends as a map file name does.
FilesInListOrder ==
    \A i \in 1..Len(files) :
        /\ i <= Len(batch)
        /\ \E d \in Dates : files[i] = FileName(batch[i].library, script, d)

C11_State ==
    /\ entry \in 1..Len(batch)
    /\ library = batch[entry].library /\ tracts = batch[entry].tracts
    /\ Len(files) = IF pc = "done" THEN entry ELSE entry - 1
    /\ FilesInListOrder
    /\ pc \in QueryStages \cup {"main"} =>
          /\ shapes = None /\ pop_df = None /\ df = None /\ fig = None
          /\ patron_df = None
    /\ pc \in RenderStages \cup {"done"} =>
          /\ nqueries = 1 /\ conn = "closed"
          /\ patron_df = DataFrame(rows.rows)
    /\ pc = "aborted" /\ script = "single" => fault \in RunqueryFaults

C11_Step ==
    /\ pc # "aborted"
    /\ batch' = batch
    /\ entry' # entry => pc = "done" /\ entry' = entry + 1 /\ pc' = "main"
    /\ files' # files =>
          /\ pc = "write" /\ entry' = entry
          /\ \E d \in Dates : files' = Append(files, FileName(batch[entry].library, script, d))
    /\ nqueries' > nqueries => pc = "execute" /\ nqueries = 0

\* C11: the enabled driver lines are processed one after another in file
\* order; within a line runquery has returned (connection closed, frame
\* built) before gen_map starts and gen_map has not started while runquery
\* runs; and after a fault no step is taken at all, so no later line is
\* queried or rendered and no later file is written.
C11_SequentialBatchAbortsOnFault ==
    /\ []C11_State
    /\ [][C11_Step]_vars

\* The second of three enabled lines faulted in its query: the first
\* line's file is written, and the second's and third's never are.
C11_Witness ==
    /\ script = "single"
    /\ Len(batch) = 3 /\ entry = 2
    /\ pc = "aborted" /\ fault = "OperationalError" /\ nqueries = 1
    /\ Len(files) = 1

\* Two lines ran to the end: two files, in list order.
C11_TwoFilesWitness ==
    /\ script = "single"
    /\ Len(batch) >= 2 /\ entry = 2 /\ pc = "done"
    /\ Len(files) = 2

====
